---- MODULE Spec2Model ----
(***************************************************************************)
(* State-machine model of the Protein_Language_Modelling workshop code:    *)
(*   - the benchmarking helpers of Deploy-ESM2-to-Inf2.ipynb               *)
(*     (inference_latency, benchmark and its CloudWatch polling loop),     *)
(*   - the inf2 inference script (model_fn, input_fn, predict_fn,          *)
(*     output_fn) written by the same notebook,                            *)
(*   - the cell order of both notebooks (save, fit, deploy, predict,       *)
(*     benchmark, endpoint cleanup).                                       *)
(***************************************************************************)
EXTENDS Integers, Sequences, FiniteSets, TLC

VARIABLES
    \* ---- benchmark(predictor, number_of_clients, number_of_runs) ----
    number_of_clients,  \* argument of benchmark
    number_of_runs,     \* argument of benchmark
    bpc,                \* position of the main thread inside benchmark
    now,                \* the wall clock, in ticks of 1/TicksPerSecond s
    cw_start,           \* local cw_start
    cw_end,             \* local cw_end
    period,             \* local period (seconds)
    nextTask,           \* next element of the generator handed to Parallel
    worker,             \* per pool thread: the task it runs and its start time
    calls,              \* per task: predictor.predict calls started so far
    outcome,            \* per task: what predictor.predict did
    slot,               \* per task: the record inference_latency returned
    finished,           \* tasks whose inference_latency call has returned
    results,            \* local results (list, submission order)
    stats,              \* locals error_p, p50, p90, p95
    cloudwatch_ready,   \* local cloudwatch_ready
    sleptSinceQuery,    \* seconds slept since the last metrics query
    polls,              \* metrics queries issued (saturates at MaxPolls)
    lastDatapoints,     \* len(model_latency_metrics["Datapoints"]) of the last query
    propagated,         \* exception that escaped benchmark, or "none"
    reqTimes,           \* per task: clock when its request started and ended
    \* ---- scripts/inference/inf2/inference.py, one request ----
    hpc,                \* handler the serving container runs next
    request,            \* the HTTP request: body, content_type, accept
    model_and_tokenizer,\* what model_fn returned
    input_data,         \* what input_fn returned
    prediction,         \* what predict_fn returned
    response,           \* what output_fn returned
    prediction_input,   \* predict_fn: the pair it builds for the compiled model
    hexc,               \* exception that ended the chain, or "none"
    \* ---- Fine-Tune-ESM2-On-DeepLoc.ipynb, cells run top to bottom ----
    ftPc,               \* cell that runs next
    ftSaved,            \* splits written by save_to_disk
    ftJob,              \* state of the training job
    ftEndpoint,         \* state of the endpoint behind predictor
    ftPredicts,         \* predictor.predict requests issued
    ftDelete,           \* what predictor.delete_endpoint() did
    ftCleanup,          \* how the cleanup cell ended
    \* ---- Deploy-ESM2-to-Inf2.ipynb, cells run top to bottom ----
    dpPc,               \* cell that runs next
    dpEndpoint,         \* state of the inf2 and the g5 endpoint
    dpPredicts,         \* per endpoint: predict requests issued
    dpBenchLeft,        \* requests the running benchmark cell still issues
    dpDelete,           \* per endpoint: what delete_endpoint() did
    dpCleanup,          \* how the cleanup cell ended
    \* ---- a function of the load test applied on its own ----
    fpc,                \* function that is applied next, or how it ended
    uniref_seq,         \* random_sequence: the sequence random.choice gave
    rs_max_length,      \* random_sequence: its argument
    rs_seq,             \* random_sequence: the string it returned
    cs_results,         \* statistics lines: the results list
    cs_window,          \* statistics lines: length of the latency window
    cs_stats            \* statistics lines: what they computed

benchVars == <<number_of_clients, number_of_runs, bpc, now, cw_start, cw_end,
               period, nextTask, worker, calls, outcome, slot, finished,
               results, stats, cloudwatch_ready, sleptSinceQuery, polls,
               lastDatapoints, propagated, reqTimes>>

handlerVars == <<hpc, request, model_and_tokenizer, input_data, prediction,
                 response, prediction_input, hexc>>

ftVars == <<ftPc, ftSaved, ftJob, ftEndpoint, ftPredicts, ftDelete, ftCleanup>>

dpVars == <<dpPc, dpEndpoint, dpPredicts, dpBenchLeft, dpDelete, dpCleanup>>

fnVars == <<fpc, uniref_seq, rs_max_length, rs_seq, cs_results, cs_window,
            cs_stats>>

vars == <<benchVars, handlerVars, ftVars, dpVars, fnVars>>

----------------------------------------------------------------------------
(* Bounds of the model *)

MaxClients == 2     \* largest number_of_clients tried
MaxRuns == 3        \* largest number_of_runs tried
MaxFairRuns == 1    \* largest number_of_runs tried under fairness
MaxClock == 1       \* the clock stops ticking here
MaxPolls == 2       \* the poll counter saturates here
MaxDatapoints == 1  \* most datapoints one metrics response carries

(* Program constants *)

MsPerSecond == 1000       \* "* 1000" of the percentile lines
LatencyWindow == 10000    \* latencies[-10000:]
SleepSeconds == 30        \* time.sleep(30)
BufferMinutes == 5        \* datetime.timedelta(minutes=5)
TicksPerSecond == 1000    \* resolution at which time.time() is modelled

----------------------------------------------------------------------------
(* Values *)

\* Exception classes: ordinary ones derive from Exception, KeyboardInterrupt
\* and SystemExit only from BaseException.
ExceptionSubclasses == {"ClientError"}
BaseOnly == {"KeyboardInterrupt"}
Exceptions == ExceptionSubclasses \cup BaseOnly

\* What an endpoint may answer.
Responses == {<<"r1">>, <<"r2">>}

Returned(v) == [kind |-> "return", value |-> v, exc |-> "none"]
Raised(e) == [kind |-> "raise", value |-> <<>>, exc |-> e]
NoOutcome == [kind |-> "none", value |-> <<>>, exc |-> "none"]

NoRecord == [latency |-> 0, error |-> FALSE, result |-> <<>>]
Idle == [task |-> 0, start |-> 0]

Tasks == 1..MaxRuns
Workers == 1..(MaxClients + 1)

Min(a, b) == IF a <= b THEN a ELSE b

----------------------------------------------------------------------------
(* inference_latency(model, inputs): the call of model(inputs) ended with    *)
(* modelOutcome; start and end are the two readings of time.time().  The    *)
(* result is what the caller sees: a returned record, or an exception.      *)

inference_latency_except_Exception(modelOutcome, start, end) ==
    IF modelOutcome.kind = "raise"
    THEN IF modelOutcome.exc \in ExceptionSubclasses
         THEN Returned([latency |-> end - start, error |-> TRUE, result |-> <<>>])
         ELSE Raised(modelOutcome.exc)
    ELSE Returned([latency |-> end - start, error |-> FALSE,
                   result |-> modelOutcome.value])

inference_latency_no_flag(modelOutcome, start, end) ==
    IF modelOutcome.kind = "raise"
    THEN Returned([latency |-> end - start, error |-> FALSE, result |-> <<>>])
    ELSE Returned([latency |-> end - start, error |-> FALSE,
                   result |-> modelOutcome.value])

inference_latency(modelOutcome, start, end) ==
    IF modelOutcome.kind = "raise"
    THEN \* bare "except:" catches every exception class
         Returned([latency |-> end - start, error |-> TRUE, result |-> <<>>])
    ELSE Returned([latency |-> end - start, error |-> FALSE,
                   result |-> modelOutcome.value])

----------------------------------------------------------------------------
(* np.quantile(a, k/100), default linear interpolation, times 100 so that   *)
(* the value stays an integer: the virtual index is (n-1)*k/100.            *)

RECURSIVE Insert(_, _)
Insert(x, s) ==
    IF s = <<>> THEN <<x>>
    ELSE IF x <= Head(s) THEN <<x>> \o s
    ELSE <<Head(s)>> \o Insert(x, Tail(s))

RECURSIVE Sort(_)
Sort(s) == IF s = <<>> THEN <<>> ELSE Insert(Head(s), Sort(Tail(s)))

QuantileX100(a, k) ==
    LET s == Sort(a)
        n == Len(s)
        h == (n - 1) * k
        lo == h \div 100
        g == h % 100
    IN  IF lo + 2 <= n
        THEN 100 * s[lo + 1] + g * (s[lo + 2] - s[lo + 1])
        ELSE 100 * s[lo + 1]

\* a[:n]
LastN_first(a, n) == IF Len(a) <= n THEN a ELSE SubSeq(a, 1, n)

\* a[-n:], n >= 1
LastN(a, n) == IF Len(a) <= n THEN a ELSE SubSeq(a, Len(a) - n + 1, Len(a))

\* Latency in ticks -> the printed value, in hundredths of a millisecond:
\* seconds = ticks / TicksPerSecond, printed = seconds * 1000.
PrintedMs(qx100) == (qx100 * MsPerSecond) \div TicksPerSecond

SumErrors_counts_all(errs) == Len(errs)

RECURSIVE SumErrors(_)
SumErrors(errs) ==
    IF errs = <<>> THEN 0
    ELSE (IF Head(errs) THEN 1 ELSE 0) + SumErrors(Tail(errs))

\* The quantile arguments of the three percentile lines.
Q_p90 == 95
Q_p95 == 99
Q_p50_as_p90 == Q_p90
Q_p50 == 50

NoStats == [error_num |-> 0, error_den |-> 1, sample |-> <<>>,
            p50 |-> 0, p90 |-> 0, p95 |-> 0]

\* Lines 502-507: the client-side statistics of a non-empty results list,
\* with latencies[-w:] as the sample of the three percentile lines.
ClientStatsW(res, w) ==
    LET latencies == [i \in 1..Len(res) |-> res[i].latency]
        errors == [i \in 1..Len(res) |-> res[i].error]
        window == LastN(latencies, w)
    IN  [error_num |-> SumErrors(errors) * 100,
         error_den |-> Len(errors),
         sample |-> window,
         p50 |-> PrintedMs(QuantileX100(window, Q_p50)),
         p90 |-> PrintedMs(QuantileX100(window, Q_p90)),
         p95 |-> PrintedMs(QuantileX100(window, Q_p95))]

ClientStats(res) == ClientStatsW(res, LatencyWindow)

\* Line 522: cw_end += datetime.timedelta(minutes=5), in ticks.
EndWithBuffer_subtracted(t) == t - BufferMinutes * 60 * TicksPerSecond
EndWithBuffer(t) == t + BufferMinutes * 60 * TicksPerSecond

\* Lines 521-527: period = ceil(total_seconds / 60) * 60, from ticks.
CeilDiv_floor(a, b) == a \div b
CeilDiv(a, b) == (a + b - 1) \div b
PeriodOf(startTicks, endTicks) ==
    CeilDiv(endTicks - startTicks, 60 * TicksPerSecond) * 60

----------------------------------------------------------------------------
(* benchmark *)

\* Parallel(n_jobs=number_of_clients, prefer="threads"): the pool size.
n_jobs_every_thread == MaxClients + 1
n_jobs == number_of_clients

\* len(model_latency_metrics["Datapoints"]) > 0
DatapointsReady_nonneg(n) == n >= 0
DatapointsReady_many(n) == n > 1
DatapointsReady(n) == n > 0

\* The locals of benchmark and the pool before the first statement.
BenchLocals ==
    /\ now = 0
    /\ cw_start = 0
    /\ cw_end = 0
    /\ period = 0
    /\ nextTask = 1
    /\ worker = [w \in Workers |-> Idle]
    /\ calls = [t \in Tasks |-> 0]
    /\ outcome = [t \in Tasks |-> NoOutcome]
    /\ slot = [t \in Tasks |-> NoRecord]
    /\ finished = {}
    /\ results = <<>>
    /\ stats = NoStats
    /\ cloudwatch_ready = FALSE
    /\ sleptSinceQuery = 0
    /\ polls = 0
    /\ lastDatapoints = 0
    /\ propagated = "none"
    /\ reqTimes = [t \in Tasks |-> [start |-> 0, end |-> 0]]

BenchInit ==
    /\ number_of_clients \in 1..MaxClients
    /\ number_of_runs \in 0..MaxRuns
    /\ bpc = "start"
    /\ BenchLocals

\* benchmark is not running.
BenchIdle ==
    /\ number_of_clients = 1
    /\ number_of_runs = 0
    /\ bpc = "idle"
    /\ BenchLocals

\* Time passes.  The clock is read by inference_latency and at both ends of
\* the parallel phase, so it is modelled up to the end of that phase.
Tick ==
    /\ now < MaxClock
    /\ bpc \in {"start", "parallel"}
    /\ now' = now + 1
    /\ UNCHANGED <<number_of_clients, number_of_runs, bpc, cw_start, cw_end,
                   period, nextTask, worker, calls, outcome, slot, finished,
                   results, stats, cloudwatch_ready, sleptSinceQuery, polls,
                   lastDatapoints, propagated>>
    /\ UNCHANGED reqTimes
    /\ UNCHANGED <<handlerVars, ftVars, dpVars, fnVars>>

\* Line 491: cw_start = utcnow(); then Parallel starts its pool.
BenchStart ==
    /\ bpc = "start"
    /\ cw_start' = now
    /\ bpc' = "parallel"
    /\ UNCHANGED <<number_of_clients, number_of_runs, now, cw_end, period,
                   nextTask, worker, calls, outcome, slot, finished, results,
                   stats, cloudwatch_ready, sleptSinceQuery, polls,
                   lastDatapoints, propagated>>
    /\ UNCHANGED reqTimes
    /\ UNCHANGED <<handlerVars, ftVars, dpVars, fnVars>>

\* A pool thread takes the next task of the generator and enters
\* inference_latency: start = time.time(), then model(inputs) is called.
WorkerTake(w) ==
    /\ bpc = "parallel"
    /\ w <= n_jobs
    /\ worker[w].task = 0
    /\ nextTask <= number_of_runs
    /\ worker' = [worker EXCEPT ![w] = [task |-> nextTask, start |-> now]]
    /\ calls' = [calls EXCEPT ![nextTask] = @ + 1]
    /\ nextTask' = nextTask + 1
    /\ UNCHANGED <<number_of_clients, number_of_runs, bpc, now, cw_start,
                   cw_end, period, outcome, slot, finished, results, stats,
                   cloudwatch_ready, sleptSinceQuery, polls, lastDatapoints,
                   propagated>>
    /\ reqTimes' = [reqTimes EXCEPT ![nextTask].start = now]
    /\ UNCHANGED <<handlerVars, ftVars, dpVars, fnVars>>

\* As PredictEnds, but a call that raised is made once more before its
\* record is built.
PredictEnds_retry(w, o) ==
    /\ bpc = "parallel"
    /\ worker[w].task # 0
    /\ LET t == worker[w].task
           r == inference_latency(o, worker[w].start, now)
           again == o.kind = "raise" /\ calls[t] < 2
       IN  /\ calls' = IF again THEN [calls EXCEPT ![t] = @ + 1] ELSE calls
           /\ outcome' = IF again THEN outcome ELSE [outcome EXCEPT ![t] = o]
           /\ worker' = IF again THEN worker ELSE [worker EXCEPT ![w] = Idle]
           /\ slot' = IF again THEN slot ELSE [slot EXCEPT ![t] = r.value]
           /\ finished' = IF again THEN finished ELSE finished \cup {t}
    /\ UNCHANGED <<number_of_clients, number_of_runs, bpc, now, cw_start,
                   cw_end, period, nextTask, results, stats, cloudwatch_ready,
                   sleptSinceQuery, polls, lastDatapoints, propagated>>
    /\ reqTimes' = [reqTimes EXCEPT ![worker[w].task].end = now]
    /\ UNCHANGED <<handlerVars, ftVars, dpVars, fnVars>>

\* predictor.predict returns or raises; inference_latency builds its record.
\* An exception that leaves inference_latency is re-raised by Parallel in the
\* main thread.
PredictEnds(w, o) ==
    /\ bpc = "parallel"
    /\ worker[w].task # 0
    /\ LET t == worker[w].task
           r == inference_latency(o, worker[w].start, now)
       IN  /\ outcome' = [outcome EXCEPT ![t] = o]
           /\ worker' = [worker EXCEPT ![w] = Idle]
           /\ slot' = IF r.kind = "return" THEN [slot EXCEPT ![t] = r.value] ELSE slot
           /\ finished' = IF r.kind = "return" THEN finished \cup {t} ELSE finished
           /\ bpc' = IF r.kind = "return" THEN bpc ELSE "raised"
           /\ propagated' = IF r.kind = "return" THEN propagated ELSE r.exc
    /\ UNCHANGED <<number_of_clients, number_of_runs, now, cw_start, cw_end,
                   period, nextTask, calls, results, stats, cloudwatch_ready,
                   sleptSinceQuery, polls, lastDatapoints>>
    /\ reqTimes' = [reqTimes EXCEPT ![worker[w].task].end = now]
    /\ UNCHANGED <<handlerVars, ftVars, dpVars, fnVars>>

PredictReturns(w) == \E v \in Responses : PredictEnds(w, Returned(v))

PredictRaises(w) == \E e \in Exceptions : PredictEnds(w, Raised(e))

\* Lines 493-529: Parallel returns the records in submission order once every
\* task has finished; cw_end = utcnow(); the client-side statistics (an empty
\* results list makes line 504 divide by zero); the 5 minute buffer and the
\* period.
ParallelReturn ==
    /\ bpc = "parallel"
    /\ nextTask > number_of_runs
    /\ finished = 1..number_of_runs
    /\ results' = [i \in 1..number_of_runs |-> slot[i]]
    /\ IF number_of_runs = 0
       THEN /\ bpc' = "raised"
            /\ propagated' = "ZeroDivisionError"
            /\ cw_end' = now
            /\ UNCHANGED <<stats, period>>
       ELSE /\ stats' = ClientStats(results')
            /\ cw_end' = EndWithBuffer(now)
            /\ period' = PeriodOf(cw_start, cw_end')
            /\ bpc' = "while"
            /\ UNCHANGED propagated
    /\ UNCHANGED <<number_of_clients, number_of_runs, now, cw_start, nextTask,
                   worker, calls, outcome, slot, finished, cloudwatch_ready,
                   sleptSinceQuery, polls, lastDatapoints>>
    /\ UNCHANGED reqTimes
    /\ UNCHANGED <<handlerVars, ftVars, dpVars, fnVars>>

\* Lines 533-535: the loop test fails to end the loop, the body starts with
\* time.sleep(30).
PollSleep ==
    /\ bpc = "while"
    /\ ~cloudwatch_ready
    /\ sleptSinceQuery' = sleptSinceQuery + SleepSeconds
    /\ bpc' = "query"
    /\ UNCHANGED <<number_of_clients, number_of_runs, now, cw_start, cw_end,
                   period, nextTask, worker, calls, outcome, slot, finished,
                   results, stats, cloudwatch_ready, polls, lastDatapoints,
                   propagated>>
    /\ UNCHANGED reqTimes
    /\ UNCHANGED <<handlerVars, ftVars, dpVars, fnVars>>

\* Lines 537-579: get_metric_statistics answers with n datapoints.
PollAnswer(n) ==
    /\ bpc = "query"
    /\ lastDatapoints' = n
    /\ polls' = Min(polls + 1, MaxPolls)
    /\ sleptSinceQuery' = 0
    /\ cloudwatch_ready' = IF DatapointsReady(n) THEN TRUE ELSE cloudwatch_ready
    /\ bpc' = "while"
    /\ UNCHANGED <<number_of_clients, number_of_runs, now, cw_start, cw_end,
                   period, nextTask, worker, calls, outcome, slot, finished,
                   results, stats, propagated>>
    /\ UNCHANGED reqTimes
    /\ UNCHANGED <<handlerVars, ftVars, dpVars, fnVars>>

PollEmpty == PollAnswer(0)

PollDatapoints == \E n \in 1..MaxDatapoints : PollAnswer(n)

\* get_metric_statistics raises (throttling, credentials, network).
PollRaises ==
    /\ bpc = "query"
    /\ bpc' = "raised"
    /\ propagated' = "EndpointConnectionError"
    /\ polls' = Min(polls + 1, MaxPolls)
    /\ sleptSinceQuery' = 0
    /\ UNCHANGED <<number_of_clients, number_of_runs, now, cw_start, cw_end,
                   period, nextTask, worker, calls, outcome, slot, finished,
                   results, stats, cloudwatch_ready, lastDatapoints>>
    /\ UNCHANGED reqTimes
    /\ UNCHANGED <<handlerVars, ftVars, dpVars, fnVars>>

\* Line 533: the loop test ends the loop and benchmark returns.
BenchReturn ==
    /\ bpc = "while"
    /\ cloudwatch_ready
    /\ bpc' = "done"
    /\ UNCHANGED <<number_of_clients, number_of_runs, now, cw_start, cw_end,
                   period, nextTask, worker, calls, outcome, slot, finished,
                   results, stats, cloudwatch_ready, sleptSinceQuery, polls,
                   lastDatapoints, propagated>>
    /\ UNCHANGED reqTimes
    /\ UNCHANGED <<handlerVars, ftVars, dpVars, fnVars>>

----------------------------------------------------------------------------
(* scripts/inference/inf2/inference.py *)

JSON_CONTENT_TYPE == "application/json"
ContentTypes == {JSON_CONTENT_TYPE, "text/csv"}

\* A protein sequence is a string of residues in which "<mask>" may occur;
\* it is kept as the sequence of its residues and mask tokens.
Residues == {"A", "G"}
MASK == "<mask>"
Symbols == Residues \cup {MASK}
MaxSeqLen == 2
SequenceStrings == UNION {[1..n -> Symbols] : n \in 1..MaxSeqLen}

\* The tokenizer's vocabulary, get_vocab() order; a token's id is its place
\* in it, counted from 0.
VocabList == <<"<cls>", "<pad>", "<eos>", "<unk>", "A", "G", MASK>>
Vocab == {VocabList[i] : i \in 1..Len(VocabList)}
TokenId(tok) ==
    LET known == IF tok \in Vocab THEN tok ELSE "<unk>"
    IN  (CHOOSE i \in 1..Len(VocabList) : VocabList[i] = known) - 1

\* Python values that reach the handlers: a str, or a dict as its keys and
\* the function from them to their values.
Str(v) == [type |-> "str", val |-> v, keys |-> {}]
Dict(keys, v) == [type |-> "dict", val |-> v, keys |-> keys]
None == [type |-> "None", val |-> <<>>, keys |-> {}]

max_length == 128

\* Sequences about as long as max_length, the mask first or last.
LongLengths == (max_length - 3)..(max_length + 1)
LongSequences ==
    UNION {{[i \in 1..n |-> IF i = k THEN MASK ELSE "A"] : k \in {1, n}} :
              n \in LongLengths}

\* JSON objects whose values are sequence strings: no key, one key (the
\* sequence short or long), or both keys.
BodyKeys == {"inputs", "sequence"}
JsonObjects ==
    {Dict({}, <<>>)}
    \cup {Dict({k}, [x \in {k} |-> v]) :
            k \in BodyKeys, v \in SequenceStrings \cup LongSequences}
    \cup {Dict(BodyKeys, f) : f \in [BodyKeys -> SequenceStrings]}

\* json.dumps / json.loads: the text of a value, and the value of a text.
json_dumps(obj) == <<"json", obj>>
json_loads(text) == text[2]

Requests == [body : {json_dumps(o) : o \in JsonObjects},
             content_type : ContentTypes,
             accept : ContentTypes]

NoRequest == [body |-> json_dumps(None), content_type |-> "none", accept |-> "none"]

\* Names bound at module level of inference.py (imports, constants, defs).
ModuleGlobals == {"os", "json", "torch", "torch_neuronx", "AutoTokenizer",
                  "JSON_CONTENT_TYPE", "MODEL_ID", "model_fn", "input_fn",
                  "predict_fn", "output_fn"}

\* Names bound inside predict_fn before line 266.
PredictFnLocals == {"input_data", "model_and_tokenizer", "model_bert",
                    "tokenizer", "max_length", "tokenized_sequence",
                    "prediction_input"}

\* Python looks a name up in the function's locals, then the module globals.
NameDefined(name, locals) == name \in locals \cup ModuleGlobals

\* model_fn: returns the pair (neuron_model, tokenizer_init).
model_fn == <<"neuron_model", "tokenizer_init">>

\* dict.pop(key, default): what it returns (the values are strings).
DictPop_default(obj, key, default) == default
DictPop(obj, key, default) ==
    IF key \in obj.keys THEN Str(obj.val[key]) ELSE default

\* input_fn(serialized_input_data, content_type)
input_fn(serialized_input_data, content_type) ==
    IF content_type = JSON_CONTENT_TYPE
    THEN LET parsed == json_loads(serialized_input_data)
         IN  Returned(DictPop(parsed, "inputs", parsed))
    ELSE Raised("Exception")

\* As encode_plus, without truncation.
encode_plus_no_truncation(text, maxLen) ==
    LET real == <<"<cls>">> \o text \o <<"<eos>">>
        len == IF Len(real) > maxLen THEN Len(real) ELSE maxLen
    IN  [input_ids |-> [i \in 1..len |->
                          IF i <= Len(real) THEN TokenId(real[i])
                          ELSE TokenId("<pad>")],
         attention_mask |-> [i \in 1..len |->
                          IF i <= Len(real) THEN 1 ELSE 0]]

\* tokenizer.encode_plus(text, max_length, padding="max_length",
\* truncation=True): <cls> text <eos>, the text cut to max_length - 2 tokens,
\* padded with <pad> to max_length; the attention mask marks the real tokens.
encode_plus(text, maxLen) ==
    LET kept == SubSeq(text, 1, Min(Len(text), maxLen - 2))
        real == <<"<cls>">> \o kept \o <<"<eos>">>
    IN  [input_ids |-> [i \in 1..maxLen |->
                          IF i <= Len(real) THEN TokenId(real[i])
                          ELSE TokenId("<pad>")],
         attention_mask |-> [i \in 1..maxLen |->
                          IF i <= Len(real) THEN 1 ELSE 0]]

\* Lines 118-128 of the compile cell: the sequence the model is traced with
\* and tracing_input, the pair of tensors given to torch_neuronx.trace.
TraceSequence ==
    <<"Q", "V", "Q", "L", "V", "E", "S", "G", "G", "G", "V", "V", "Q", "P",
    "R", "S", "L", "T", "L", "S", "C", "A", "A", "S", "G", "F", "T", "F",
    "S", "S", "Y", "G", "L", MASK, "H", "W", "V", "R", "Q", "A", "P", "G",
    "K", "G", "L", "E", "W", "V", "A", "N", "I", "W", "Y", "D", "G", "A",
    "N", "K", "Y", "Y", "G", "D", "S", "V", "K", "G", "R", "F", "T", "I",
    "S", "R", "D", "N", "S", "R", "N", "T", "L", "Y", "L", "Q", "M", "N",
    "S", "L", "T", "A", "E", "D", "T", "A", "V", "Y", "Y", "C", "A", "R",
    "W", "I", "E", "Y", "G", "S", "G", "K", "D", "A", "F", "D", "V", "W",
    "G", "Q", "G", "T", "M", "V", "I", "V", "S", "S">>

trace_max_length == 128

tracing_input ==
    LET tokenized_sequence == encode_plus(TraceSequence, trace_max_length)
    IN  <<tokenized_sequence.input_ids, tokenized_sequence.attention_mask>>

\* Lines 255-265: prediction_input, the pair predict_fn builds from a str.
NoInput == <<>>
PredictionInput(data) ==
    LET tokenized_sequence == encode_plus(data.val, max_length)
    IN  <<tokenized_sequence.input_ids, tokenized_sequence.attention_mask>>

\* Probabilities the compiled model may give a token, in thousandths
\* (round(v.item(), 3)).
Probs == {0, 1000}
ModelRows == [Vocab -> Probs]

\* predict_fn(input_data, model_and_tokenizer); row is the model's output at
\* the first mask position after the sigmoid.
predict_fn(data, loaded, row) ==
    IF data.type # "str"
    THEN Raised("ValueError")             \* encode_plus rejects a dict
    ELSE LET tokenized_sequence == encode_plus(data.val, max_length)
             mask_token_index ==
                 {i \in 1..max_length :
                     tokenized_sequence.input_ids[i] = TokenId(MASK)}
         IN  IF ~NameDefined("neuron_model", PredictFnLocals)
             THEN Raised("NameError")     \* line 266 reads neuron_model
             ELSE IF mask_token_index = {}
             THEN Raised("IndexError")    \* probs[0] of an empty tensor
             ELSE Returned(Dict(Vocab, row))

\* output_fn(prediction_output, accept)
output_fn(prediction_output, accept) ==
    IF accept = JSON_CONTENT_TYPE
    THEN Returned(<<json_dumps(prediction_output), accept>>)
    ELSE Raised("Exception")

HandlerLocals ==
    /\ model_and_tokenizer = <<>>
    /\ input_data = None
    /\ prediction = None
    /\ response = <<>>
    /\ prediction_input = NoInput
    /\ hexc = "none"

\* The container starts the chain for a request.
ChainInit ==
    /\ hpc = "model_fn"
    /\ request \in Requests
    /\ HandlerLocals

\* output_fn applied on its own to a prediction_output and an accept header.
OutputFnInit ==
    /\ hpc = "output_fn"
    /\ request \in {[NoRequest EXCEPT !.accept = a] : a \in ContentTypes}
    /\ model_and_tokenizer = <<>>
    /\ input_data = None
    /\ prediction \in {Dict(Vocab, row) : row \in ModelRows}
    /\ response = <<>>
    /\ prediction_input = NoInput
    /\ hexc = "none"

HandlerInit == ChainInit \/ OutputFnInit

HandlerIdle ==
    /\ hpc = "idle"
    /\ request = NoRequest
    /\ HandlerLocals

\* The container loads the model once.
ModelFn ==
    /\ hpc = "model_fn"
    /\ model_and_tokenizer' = model_fn
    /\ hpc' = "input_fn"
    /\ UNCHANGED <<request, input_data, prediction, response, prediction_input,
                   hexc>>
    /\ UNCHANGED <<benchVars, ftVars, dpVars, fnVars>>

InputFn ==
    /\ hpc = "input_fn"
    /\ LET r == input_fn(request.body, request.content_type)
       IN  /\ input_data' = IF r.kind = "return" THEN r.value ELSE input_data
           /\ hpc' = IF r.kind = "return" THEN "predict_fn" ELSE "raised"
           /\ hexc' = IF r.kind = "return" THEN hexc ELSE r.exc
    /\ UNCHANGED <<request, model_and_tokenizer, prediction, response,
                   prediction_input>>
    /\ UNCHANGED <<benchVars, ftVars, dpVars, fnVars>>

PredictFn ==
    /\ hpc = "predict_fn"
    /\ prediction_input' = IF input_data.type = "str"
                           THEN PredictionInput(input_data)
                           ELSE prediction_input
    /\ \E row \in ModelRows :
         LET r == predict_fn(input_data, model_and_tokenizer, row)
         IN  /\ prediction' = IF r.kind = "return" THEN r.value ELSE prediction
             /\ hpc' = IF r.kind = "return" THEN "output_fn" ELSE "raised"
             /\ hexc' = IF r.kind = "return" THEN hexc ELSE r.exc
    /\ UNCHANGED <<request, model_and_tokenizer, input_data, response>>
    /\ UNCHANGED <<benchVars, ftVars, dpVars, fnVars>>

OutputFn ==
    /\ hpc = "output_fn"
    /\ LET r == output_fn(prediction, request.accept)
       IN  /\ response' = IF r.kind = "return" THEN r.value ELSE response
           /\ hpc' = IF r.kind = "return" THEN "done" ELSE "raised"
           /\ hexc' = IF r.kind = "return" THEN hexc ELSE r.exc
    /\ UNCHANGED <<request, model_and_tokenizer, input_data, prediction,
                   prediction_input>>
    /\ UNCHANGED <<benchVars, ftVars, dpVars, fnVars>>

----------------------------------------------------------------------------
(* The notebooks, their code cells run top to bottom; a cell that raises    *)
(* stops the run.  Calls into the managed service end as the service        *)
(* decides: they return, or raise one of Exceptions.                        *)

CallOutcomes == {Returned(<<>>)} \cup {Raised(e) : e \in Exceptions}

MaxCellRequests == 2    \* requests a benchmark cell issues in the model

\* hf_estimator.fit(..., wait=True)
fit_wait_false == FALSE
fit_wait == TRUE

\* try: predictor.delete_endpoint() / except: pass.  How the cell ends.
ft_cleanup_except_Exception(o) ==
    IF o.kind = "raise" /\ o.exc \notin ExceptionSubclasses
    THEN "raised" ELSE "completed"
ft_cleanup(o) == "completed"

\* try: inf2_predictor.delete_endpoint(); g5_predictor.delete_endpoint()
\* except: pass.  oInf2 and oG5 are what the two calls would do; the second
\* call is made only if the first returns.
dp_cleanup_except_Exception(oInf2, oG5) ==
    LET escaping(o) == o.kind = "raise" /\ o.exc \notin ExceptionSubclasses
    IN  [inf2 |-> oInf2,
         g5 |-> IF oInf2.kind = "raise" THEN NoOutcome ELSE oG5,
         cell |-> IF escaping(oInf2) \/ (oInf2.kind = "return" /\ escaping(oG5))
                  THEN "raised" ELSE "completed"]
dp_cleanup(oInf2, oG5) ==
    [inf2 |-> oInf2,
     g5 |-> IF oInf2.kind = "raise" THEN NoOutcome ELSE oG5,
     cell |-> "completed"]

Endpoints == {"inf2", "g5"}

FtInit ==
    /\ ftPc = "save"
    /\ ftSaved = {}
    /\ ftJob = "none"
    /\ ftEndpoint = "none"
    /\ ftPredicts = 0
    /\ ftDelete = NoOutcome
    /\ ftCleanup = "notrun"

FtIdle ==
    /\ ftPc = "idle"
    /\ ftSaved = {}
    /\ ftJob = "none"
    /\ ftEndpoint = "none"
    /\ ftPredicts = 0
    /\ ftDelete = NoOutcome
    /\ ftCleanup = "notrun"

\* Lines 257-261: both splits are saved, train first.
FtSave ==
    /\ ftPc = "save"
    /\ \E oTrain \in CallOutcomes, oTest \in CallOutcomes :
         /\ ftSaved' = IF oTrain.kind = "raise" THEN {}
                       ELSE IF oTest.kind = "raise" THEN {"train"}
                       ELSE {"train", "test"}
         /\ ftPc' = IF oTrain.kind = "raise" \/ oTest.kind = "raise"
                    THEN "halted" ELSE "fit"
    /\ UNCHANGED <<ftJob, ftEndpoint, ftPredicts, ftDelete, ftCleanup>>
    /\ UNCHANGED <<benchVars, handlerVars, dpVars, fnVars>>

\* Lines 376-386: fit submits the training job and, wait being True, blocks.
FtFit ==
    /\ ftPc = "fit"
    /\ \E o \in CallOutcomes :
         IF o.kind = "raise"
         THEN ftPc' = "halted" /\ UNCHANGED ftJob
         ELSE /\ ftJob' = "InProgress"
              /\ ftPc' = IF fit_wait THEN "fit_wait" ELSE "deploy"
    /\ UNCHANGED <<ftSaved, ftEndpoint, ftPredicts, ftDelete, ftCleanup>>
    /\ UNCHANGED <<benchVars, handlerVars, dpVars, fnVars>>

\* The service ends the training job.
FtJobEnds ==
    /\ ftJob = "InProgress"
    /\ ftJob' \in {"Completed", "Failed"}
    /\ UNCHANGED <<ftPc, ftSaved, ftEndpoint, ftPredicts, ftDelete, ftCleanup>>
    /\ UNCHANGED <<benchVars, handlerVars, dpVars, fnVars>>

\* fit returns once the job has completed and raises if it failed.
FtFitEnds ==
    /\ ftPc = "fit_wait"
    /\ ftJob \in {"Completed", "Failed"}
    /\ ftPc' = IF ftJob = "Completed" THEN "deploy" ELSE "halted"
    /\ UNCHANGED <<ftSaved, ftJob, ftEndpoint, ftPredicts, ftDelete, ftCleanup>>
    /\ UNCHANGED <<benchVars, handlerVars, dpVars, fnVars>>

\* Lines 425-429: hf_estimator.deploy creates the endpoint and waits for it.
FtDeploy ==
    /\ ftPc = "deploy"
    /\ \E o \in CallOutcomes :
         IF o.kind = "raise"
         THEN ftPc' = "halted" /\ UNCHANGED ftEndpoint
         ELSE ftPc' = "deploy_wait" /\ ftEndpoint' = "Creating"
    /\ UNCHANGED <<ftSaved, ftJob, ftPredicts, ftDelete, ftCleanup>>
    /\ UNCHANGED <<benchVars, handlerVars, dpVars, fnVars>>

FtDeployEnds ==
    /\ ftPc = "deploy_wait"
    /\ \E o \in CallOutcomes :
         IF o.kind = "raise"
         THEN ftPc' = "halted" /\ ftEndpoint' = "Failed"
         ELSE ftPc' = "predict" /\ ftEndpoint' = "InService"
    /\ UNCHANGED <<ftSaved, ftJob, ftPredicts, ftDelete, ftCleanup>>
    /\ UNCHANGED <<benchVars, handlerVars, dpVars, fnVars>>

\* Lines 463-464: predictor.predict(sample)
FtPredict ==
    /\ ftPc = "predict"
    /\ ftPredicts' = ftPredicts + 1
    /\ \E o \in CallOutcomes :
         ftPc' = IF o.kind = "raise" THEN "halted" ELSE "cleanup"
    /\ UNCHANGED <<ftSaved, ftJob, ftEndpoint, ftDelete, ftCleanup>>
    /\ UNCHANGED <<benchVars, handlerVars, dpVars, fnVars>>

\* Lines 476-479: the cleanup cell.
FtCleanupCell ==
    /\ ftPc = "cleanup"
    /\ \E o \in CallOutcomes :
         /\ ftDelete' = o
         /\ ftEndpoint' = IF o.kind = "return" THEN "Deleted" ELSE ftEndpoint
         /\ ftCleanup' = ft_cleanup(o)
         /\ ftPc' = IF ft_cleanup(o) = "completed" THEN "end" ELSE "halted"
    /\ UNCHANGED <<ftSaved, ftJob, ftPredicts>>
    /\ UNCHANGED <<benchVars, handlerVars, dpVars, fnVars>>

----------------------------------------------------------------------------
(* Deploy-ESM2-to-Inf2.ipynb *)

DpLocals ==
    /\ dpEndpoint = [e \in Endpoints |-> "none"]
    /\ dpPredicts = [e \in Endpoints |-> 0]
    /\ dpBenchLeft = 0
    /\ dpDelete = [e \in Endpoints |-> NoOutcome]
    /\ dpCleanup = "notrun"

DpInit ==
    /\ dpPc = "deploy_inf2"
    /\ DpLocals

DpIdle ==
    /\ dpPc = "idle"
    /\ DpLocals

\* The cells in notebook order.
DpCell(e, kind) == kind \o "_" \o e
DpAfterPredict(e) == IF e = "inf2" THEN "deploy_g5" ELSE "bench_g5"
DpAfterBench(e) == IF e = "g5" THEN "bench_inf2" ELSE "cleanup"

\* Lines 320-322 and 403: model.deploy creates the endpoint and waits for it.
DpDeploy(e) ==
    /\ dpPc = DpCell(e, "deploy")
    /\ \E o \in CallOutcomes :
         IF o.kind = "raise"
         THEN dpPc' = "halted" /\ dpEndpoint' = [dpEndpoint EXCEPT ![e] = "Failed"]
         ELSE dpPc' = DpCell(e, "predict")
              /\ dpEndpoint' = [dpEndpoint EXCEPT ![e] = "InService"]
    /\ UNCHANGED <<dpPredicts, dpBenchLeft, dpDelete, dpCleanup>>
    /\ UNCHANGED <<benchVars, handlerVars, ftVars, fnVars>>

\* Lines 362-363 and 415-416: predictor.predict({"inputs": example})
DpPredict(e) ==
    /\ dpPc = DpCell(e, "predict")
    /\ dpPredicts' = [dpPredicts EXCEPT ![e] = @ + 1]
    /\ \E o \in CallOutcomes, n \in 1..MaxCellRequests :
         IF o.kind = "raise"
         THEN dpPc' = "halted" /\ UNCHANGED dpBenchLeft
         ELSE /\ dpPc' = DpAfterPredict(e)
              /\ dpBenchLeft' = IF e = "g5" THEN n ELSE dpBenchLeft
    /\ UNCHANGED <<dpEndpoint, dpDelete, dpCleanup>>
    /\ UNCHANGED <<benchVars, handlerVars, ftVars, fnVars>>

\* Lines 591 and 603, 493-496: the benchmark cell issues one of its requests;
\* inference_latency keeps a failure from ending the cell.
DpBenchRequest(e) ==
    /\ dpPc = DpCell(e, "bench")
    /\ dpBenchLeft > 0
    /\ dpPredicts' = [dpPredicts EXCEPT ![e] = @ + 1]
    /\ dpBenchLeft' = dpBenchLeft - 1
    /\ UNCHANGED <<dpPc, dpEndpoint, dpDelete, dpCleanup>>
    /\ UNCHANGED <<benchVars, handlerVars, ftVars, fnVars>>

\* benchmark returns, or raises out of its statistics or its polling loop.
DpBenchEnds(e) ==
    /\ dpPc = DpCell(e, "bench")
    /\ dpBenchLeft = 0
    /\ \E o \in CallOutcomes, n \in 1..MaxCellRequests :
         IF o.kind = "raise"
         THEN dpPc' = "halted" /\ UNCHANGED dpBenchLeft
         ELSE /\ dpPc' = DpAfterBench(e)
              /\ dpBenchLeft' = IF e = "g5" THEN n ELSE dpBenchLeft
    /\ UNCHANGED <<dpEndpoint, dpPredicts, dpDelete, dpCleanup>>
    /\ UNCHANGED <<benchVars, handlerVars, ftVars, fnVars>>

\* Lines 627-631: the cleanup cell.
DpCleanupCell ==
    /\ dpPc = "cleanup"
    /\ \E oInf2 \in CallOutcomes, oG5 \in CallOutcomes :
         LET r == dp_cleanup(oInf2, oG5)
         IN  /\ dpDelete' = [inf2 |-> r.inf2, g5 |-> r.g5]
             /\ dpEndpoint' = [e \in Endpoints |->
                                 IF dpDelete'[e].kind = "return"
                                 THEN "Deleted" ELSE dpEndpoint[e]]
             /\ dpCleanup' = r.cell
             /\ dpPc' = IF r.cell = "completed" THEN "end" ELSE "halted"
    /\ UNCHANGED <<dpPredicts, dpBenchLeft>>
    /\ UNCHANGED <<benchVars, handlerVars, ftVars, fnVars>>

----------------------------------------------------------------------------
(* Functions of the load test applied on their own: random_sequence, and   *)
(* the statistics lines of benchmark on a results list.  A string is the   *)
(* sequence of its characters.                                              *)

MaxSourceLen == 3   \* longest sequence of the dataset in the model
MaxArg == 4         \* largest max_length given to random_sequence
MaxResults == 3     \* longest results list given to the statistics lines
MaxLatency == 1     \* largest latency in such a list, in ticks
MaxWindow == 2      \* largest short latency window tried

MaskChars == <<"<", "m", "a", "s", "k", ">">>

\* Sequences random.choice(uniref) may give: strings of residues, the empty
\* string, and strings in which "<mask>" already occurs.
ResidueStrings == UNION {[1..n -> Residues] : n \in 0..MaxSourceLen}
MaskedStrings == {MaskChars, <<"A">> \o MaskChars, MaskChars \o <<"G">>}
Uniref == ResidueStrings \cup MaskedStrings

\* seq[:n], n >= 0
Prefix_whole(seq, n) == seq
Prefix(seq, n) == SubSeq(seq, 1, Min(Len(seq), n))

\* "".join(list)
RECURSIVE Join(_)
Join(list) == IF list = <<>> THEN <<>> ELSE Head(list) \o Join(Tail(list))

\* Lines 477-482, with seq what random.choice gave and idx what
\* random.randint(0, len(seq) - 1) gave.
random_sequence(seq, maxLen, idx) ==
    LET cut == Prefix(seq, maxLen)
        list == [i \in 1..Len(cut) |-> IF i = idx + 1 THEN MaskChars ELSE <<cut[i]>>]
    IN  Join(list)

Records == [latency : 0..MaxLatency, error : BOOLEAN, result : {<<>>}]
ResultLists == UNION {[1..n -> Records] : n \in 1..MaxResults}
Windows == 1..MaxWindow \cup {LatencyWindow}

FnLocals ==
    /\ uniref_seq = <<>>
    /\ rs_max_length = 0
    /\ rs_seq = <<>>
    /\ cs_results = <<>>
    /\ cs_window = LatencyWindow
    /\ cs_stats = NoStats

FnIdle == fpc = "idle" /\ FnLocals

RandomSequenceInit ==
    /\ fpc = "random_sequence"
    /\ uniref_seq \in Uniref
    /\ rs_max_length \in 0..MaxArg
    /\ rs_seq = <<>>
    /\ cs_results = <<>>
    /\ cs_window = LatencyWindow
    /\ cs_stats = NoStats

\* random_sequence(max_length); random.randint(0, -1) raises ValueError.
RandomSequence ==
    /\ fpc = "random_sequence"
    /\ LET n == Len(Prefix(uniref_seq, rs_max_length))
       IN  IF n = 0
           THEN fpc' = "raised" /\ UNCHANGED rs_seq
           ELSE /\ \E idx \in 0..(n - 1) :
                     rs_seq' = random_sequence(uniref_seq, rs_max_length, idx)
                /\ fpc' = "returned"
    /\ UNCHANGED <<uniref_seq, rs_max_length, cs_results, cs_window, cs_stats>>
    /\ UNCHANGED <<benchVars, handlerVars, ftVars, dpVars>>

ClientStatsInit ==
    /\ fpc = "statistics"
    /\ uniref_seq = <<>>
    /\ rs_max_length = 0
    /\ rs_seq = <<>>
    /\ cs_results \in ResultLists
    /\ cs_window \in Windows
    /\ cs_stats = NoStats

\* Lines 502-507 on cs_results, the window being cs_window.
ApplyClientStats ==
    /\ fpc = "statistics"
    /\ cs_stats' = ClientStatsW(cs_results, cs_window)
    /\ fpc' = "printed"
    /\ UNCHANGED <<uniref_seq, rs_max_length, rs_seq, cs_results, cs_window>>
    /\ UNCHANGED <<benchVars, handlerVars, ftVars, dpVars>>

----------------------------------------------------------------------------
(* Specifications *)

\* benchmark
Init == BenchInit /\ HandlerIdle /\ FtIdle /\ DpIdle /\ FnIdle

Next ==
    \/ Tick
    \/ BenchStart
    \/ \E w \in Workers : WorkerTake(w)
    \/ \E w \in Workers : PredictReturns(w)
    \/ \E w \in Workers : PredictRaises(w)
    \/ ParallelReturn
    \/ PollSleep
    \/ PollEmpty
    \/ PollDatapoints
    \/ PollRaises
    \/ BenchReturn

Spec == Init /\ [][Next]_vars

\* benchmark, every thread that can take a step eventually takes one, every
\* call into a service eventually ends.
Fairness ==
    /\ WF_vars(BenchStart)
    /\ \A w \in Workers : WF_vars(WorkerTake(w))
    /\ \A w \in Workers : WF_vars(PredictReturns(w) \/ PredictRaises(w))
    /\ WF_vars(ParallelReturn)
    /\ WF_vars(PollSleep)
    /\ WF_vars(PollEmpty \/ PollDatapoints \/ PollRaises)
    /\ WF_vars(BenchReturn)

FairInit == Init /\ number_of_runs <= MaxFairRuns

FairSpec == FairInit /\ [][Next]_vars /\ Fairness

\* the inference script answering one request
HandlerSpecInit == HandlerInit /\ BenchIdle /\ FtIdle /\ DpIdle /\ FnIdle

HandlerNext ==
    \/ ModelFn
    \/ InputFn
    \/ PredictFn
    \/ OutputFn

HandlerSpec == HandlerSpecInit /\ [][HandlerNext]_vars

\* the two notebooks
NotebookInit == FtInit /\ DpInit /\ BenchIdle /\ HandlerIdle /\ FnIdle

NotebookNext ==
    \/ FtSave
    \/ FtFit
    \/ FtJobEnds
    \/ FtFitEnds
    \/ FtDeploy
    \/ FtDeployEnds
    \/ FtPredict
    \/ FtCleanupCell
    \/ \E e \in Endpoints : DpDeploy(e)
    \/ \E e \in Endpoints : DpPredict(e)
    \/ \E e \in Endpoints : DpBenchRequest(e)
    \/ \E e \in Endpoints : DpBenchEnds(e)
    \/ DpCleanupCell

NotebookSpec == NotebookInit /\ [][NotebookNext]_vars

\* random_sequence on its own
RandomSequenceInitAll == RandomSequenceInit /\ BenchIdle /\ HandlerIdle /\ FtIdle /\ DpIdle

RandomSequenceSpec == RandomSequenceInitAll /\ [][RandomSequence]_vars

\* benchmark, and its statistics lines on their own
StatsInit ==
    \/ Init
    \/ ClientStatsInit /\ BenchIdle /\ HandlerIdle /\ FtIdle /\ DpIdle

StatsNext == Next \/ ApplyClientStats

StatsSpec == StatsInit /\ [][StatsNext]_vars

----------------------------------------------------------------------------
(* Properties *)

RunTasks == 1..number_of_runs
InFlight == {w \in Workers : worker[w].task # 0}
Ended == {t \in RunTasks : outcome[t].kind # "none"}
RaisedTasks == {t \in RunTasks : outcome[t].kind = "raise"}
ErrorRecords == {i \in 1..Len(results) : results[i].error}
ParallelOver == bpc \in {"while", "query", "done", "raised"}
Terminated == bpc \in {"done", "raised"}

\* C1: inference_latency never lets an exception of the predictor call out:
\* a call that raised (whatever the exception class) yields a record with
\* error = True and result = [], a call that returned yields error = False
\* and the returned value as result; either record carries a latency, the
\* time between the two clock readings.
C1_InferenceLatencyRecords ==
    /\ propagated \notin Exceptions
    /\ \A t \in Ended :
         /\ t \in finished
         /\ slot[t].latency \in 0..now
         /\ outcome[t].kind = "raise" =>
              slot[t].error = TRUE /\ slot[t].result = <<>>
         /\ outcome[t].kind = "return" =>
              slot[t].error = FALSE /\ slot[t].result = outcome[t].value

C1_Witness ==
    /\ \E t \in Ended : outcome[t].exc = "KeyboardInterrupt" /\ slot[t].latency > 0
    /\ \E t \in Ended : outcome[t].exc = "ClientError"
    /\ \E t \in Ended : outcome[t].kind = "return" /\ slot[t].result = <<"r2">>

\* C2: at every moment of benchmark at most number_of_clients calls of
\* predictor.predict have started and not yet ended.
C2_InFlightAtMostClients == Cardinality(InFlight) <= number_of_clients

C2_Witness ==
    /\ number_of_clients = 2
    /\ Cardinality(InFlight) = 2
    /\ nextTask <= number_of_runs

\* C3: every one of the number_of_runs requests is attempted exactly once,
\* whichever of them fail: no request is ever called twice, and once the
\* parallel phase is over every request has been called once, results holds
\* number_of_runs records, and as many of them carry error = True as
\* predictor calls raised.
C3_EachRequestOnce ==
    /\ \A t \in Tasks : calls[t] <= 1
    /\ ParallelOver =>
         /\ \A t \in RunTasks : calls[t] = 1 /\ t \in Ended
         /\ Len(results) = number_of_runs
         /\ Cardinality(ErrorRecords) = Cardinality(RaisedTasks)
         /\ \A t \in RunTasks : results[t].error <=> t \in RaisedTasks

C3_Witness ==
    /\ ParallelOver
    /\ number_of_runs = 3
    /\ outcome[1].kind = "raise"
    /\ outcome[2].kind = "return"
    /\ outcome[3].kind = "raise"

\* The request C4 is about: a JSON body {"inputs": <sequence with a mask>},
\* content type and accept application/json, handled by the whole chain.
C4_Request ==
    /\ request \in Requests
    /\ request.content_type = JSON_CONTENT_TYPE
    /\ request.accept = JSON_CONTENT_TYPE
    /\ "inputs" \in json_loads(request.body).keys
    /\ \E i \in DOMAIN json_loads(request.body).val["inputs"] :
         json_loads(request.body).val["inputs"][i] = MASK

\* C4: for such a request the chain model_fn, input_fn, predict_fn, output_fn
\* never raises, and its response is the JSON text of a mapping from the
\* vocabulary tokens to probabilities.
C4_ChainAnswers ==
    C4_Request =>
       /\ hpc # "raised"
       /\ hpc = "done" =>
            /\ response[2] = JSON_CONTENT_TYPE
            /\ json_loads(response[1]).keys = Vocab
            /\ json_loads(response[1]).val \in ModelRows

\* C5: the cleanup cell of either notebook ends normally whatever its
\* delete_endpoint calls do: once a delete_endpoint call was made the cell
\* has completed and the notebook is at its end.
C5_CleanupNeverRaises ==
    /\ ftCleanup # "raised"
    /\ dpCleanup # "raised"
    /\ ftDelete.kind # "none" => ftCleanup = "completed" /\ ftPc = "end"
    /\ dpDelete["inf2"].kind # "none" => dpCleanup = "completed" /\ dpPc = "end"

C5_Witness ==
    /\ ftDelete.kind = "raise"
    /\ ftDelete.exc = "KeyboardInterrupt"
    /\ ftCleanup = "completed"
    /\ dpDelete["inf2"].kind = "return"
    /\ dpDelete["g5"].kind = "raise"
    /\ dpDelete["g5"].exc = "KeyboardInterrupt"
    /\ dpCleanup = "completed"

\* C6: the notebooks run strictly in order.  Fine-tuning: the training job is
\* submitted only with both splits saved, the endpoint is created only with
\* the training job completed, a prediction is requested only from an
\* endpoint in service.  Both notebooks: a prediction is requested only from
\* an endpoint that is deployed and on which delete_endpoint was not called.
C6_Step ==
    /\ (ftJob = "none" /\ ftJob' # "none") => ftSaved = {"train", "test"}
    /\ (ftEndpoint = "none" /\ ftEndpoint' # "none") => ftJob = "Completed"
    /\ ftPredicts' # ftPredicts =>
         ftEndpoint = "InService" /\ ftDelete.kind = "none"
    /\ \A e \in Endpoints :
         dpPredicts'[e] # dpPredicts[e] =>
            dpEndpoint[e] = "InService" /\ dpDelete[e].kind = "none"

C6_LinearFlow == [][C6_Step]_vars

C6_Witness ==
    /\ ftPc = "end"
    /\ ftPredicts = 1
    /\ ftEndpoint = "Deleted"
    /\ dpPc = "end"
    /\ dpPredicts["inf2"] = 3
    /\ dpPredicts["g5"] = 2
    /\ dpEndpoint["inf2"] = "Deleted"

\* C7: benchmark returns only after a metrics query answered with at least
\* one datapoint; the polling loop goes on after every empty answer and is
\* left on the first non-empty one; a query is only made after a sleep of 30
\* seconds since the query before.
C7_PollingLoop ==
    /\ bpc = "done" => lastDatapoints > 0 /\ polls >= 1
    /\ bpc = "query" => sleptSinceQuery = 30 /\ lastDatapoints = 0
    /\ cloudwatch_ready <=> lastDatapoints > 0
    /\ lastDatapoints > 0 => bpc \in {"while", "done"}
    /\ (bpc = "while" /\ ~cloudwatch_ready) => ~ENABLED BenchReturn

C7_Witness ==
    /\ bpc = "done"
    /\ polls = MaxPolls
    /\ lastDatapoints > 0

\* C8: with every predictor call ending and the metrics query once answering
\* with a datapoint, benchmark terminates; and there is no timeout or poll
\* limit: as long as every answer is empty (and no query raises) benchmark
\* does not terminate, however many polls were made.
C8_Termination ==
    /\ <>(lastDatapoints > 0) => <>Terminated
    /\ [](lastDatapoints = 0 /\ propagated = "none") => []~Terminated

C8_Witness ==
    /\ bpc = "query"
    /\ polls = MaxPolls
    /\ lastDatapoints = 0
    /\ number_of_runs = MaxFairRuns
    /\ \E t \in RaisedTasks : TRUE

\* The sample of the percentile lines, and a quantile of it as printed.
PercentileSample ==
    LastN([i \in 1..Len(results) |-> results[i].latency], LatencyWindow)
PrintedQuantile(k) == PrintedMs(QuantileX100(PercentileSample, k))
StatsPrinted == bpc \in {"while", "query", "done"}

\* C9: the value printed as "90th Percentile Latency" is the 0.90 quantile of
\* the measured latencies, in milliseconds.
C9_P90IsQuantile90 == StatsPrinted => stats.p90 = PrintedQuantile(90)

\* C10: the value printed as "95th Percentile Latency" is the 0.95 quantile
\* of the measured latencies, in milliseconds.
C10_P95IsQuantile95 == StatsPrinted => stats.p95 = PrintedQuantile(95)

\* C11: the value printed as "50th Percentile Latency" is the median of the
\* measured latencies, in milliseconds: the middle one of the sorted sample,
\* or the mean of the two middle ones (kept in hundredths of a millisecond).
C11_P50IsMedian ==
    StatsPrinted =>
       LET s == Sort(PercentileSample)
           n == Len(s)
       IN  stats.p50 = 50 * (s[(n + 1) \div 2] + s[n \div 2 + 1])

C11_Witness ==
    /\ StatsPrinted
    /\ number_of_runs = 2
    /\ results[1].latency = 1
    /\ results[2].latency = 0
    /\ stats.p50 = 50

\* C12: the error percentage is 100 * (records with error = True) /
\* number_of_runs, taken over all number_of_runs records, and lies between 0
\* and 100 (kept as the fraction error_num / error_den).
C12_ErrorPercentage ==
    StatsPrinted =>
       /\ number_of_runs >= 1
       /\ stats.error_den = number_of_runs
       /\ stats.error_num = 100 * Cardinality(ErrorRecords)
       /\ 0 <= stats.error_num
       /\ stats.error_num <= 100 * stats.error_den

C12_Witness ==
    /\ StatsPrinted
    /\ number_of_runs = 3
    /\ Cardinality(ErrorRecords) = 1
    /\ results[2].error

\* C14: the window asked of the metrics API contains every request of the
\* run: StartTime is taken before the first request starts, EndTime after the
\* last one has ended, plus the buffer of 5 minutes; so every request starts
\* at or after StartTime and ends at or before EndTime.
C14_WindowContainsRequests ==
    /\ \A w \in InFlight : cw_start <= worker[w].start
    /\ \A t \in Ended : cw_start <= reqTimes[t].start
    /\ StatsPrinted =>
         /\ Ended = RunTasks
         /\ \A t \in RunTasks :
              /\ cw_start <= reqTimes[t].start
              /\ reqTimes[t].start <= reqTimes[t].end
              /\ reqTimes[t].end <= cw_end
              /\ reqTimes[t].end + 5 * 60 * TicksPerSecond <= cw_end

C14_Witness ==
    /\ bpc = "query"
    /\ cw_start = 1
    /\ number_of_runs = 3
    /\ \A t \in RunTasks : reqTimes[t].start = 1 /\ reqTimes[t].end = 1

\* C15: the Period of the metrics query is a positive multiple of 60 seconds
\* and at least as long as the queried window, EndTime - StartTime with the
\* buffer of 5 minutes, hence at least 300 seconds.
C15_PeriodCoversWindow ==
    StatsPrinted =>
       /\ period > 0
       /\ period % 60 = 0
       /\ period * TicksPerSecond >= cw_end - cw_start
       /\ period >= 300

C15_Witness ==
    /\ StatsPrinted
    /\ cw_end - cw_start > 300 * TicksPerSecond
    /\ period = 360

\* The last Min(Len(res), w) latencies of a results list, in list order.
LastLatencies(res, w) ==
    LET n == Len(res)
        m == Min(n, w)
    IN  [i \in 1..m |-> res[n - m + i].latency]

\* C13: the sample of the percentile lines is exactly the latencies of the
\* last min(number_of_runs, 10000) requests in submission order, those of
\* failed requests included: in benchmark, record i of results is the one of
\* the i-th submitted request whatever the order of completion, and the
\* sample is the last min(number_of_runs, 10000) of them; on any results
\* list longer than the window the sample leaves out the earliest records
\* while the error percentage counts every record.
C13_SampleIsLastRequests ==
    /\ StatsPrinted =>
         /\ Len(results) = number_of_runs
         /\ \A i \in RunTasks :
              /\ results[i].latency = reqTimes[i].end - reqTimes[i].start
              /\ results[i].error = (outcome[i].kind = "raise")
         /\ Len(stats.sample) = Min(number_of_runs, 10000)
         /\ stats.sample = LastLatencies(results, 10000)
    /\ fpc = "printed" =>
         /\ Len(cs_stats.sample) = Min(Len(cs_results), cs_window)
         /\ cs_stats.sample = LastLatencies(cs_results, cs_window)
         /\ cs_stats.error_den = Len(cs_results)
         /\ cs_stats.error_num =
               100 * Cardinality({i \in 1..Len(cs_results) : cs_results[i].error})

C13_Witness ==
    /\ fpc = "printed"
    /\ Len(cs_results) = 3
    /\ cs_window = 2
    /\ cs_results[1].latency = 1 /\ cs_results[1].error
    /\ cs_results[2].latency = 0 /\ cs_results[2].error
    /\ cs_results[3].latency = 1 /\ ~cs_results[3].error
    /\ cs_stats.sample = <<0, 1>>
    /\ cs_stats.error_num = 200

\* Number of places where "<mask>" occurs in a string.
CountMask(str) ==
    Cardinality({i \in 1..Len(str) :
                    /\ i + Len(MaskChars) - 1 <= Len(str)
                    /\ SubSeq(str, i, i + Len(MaskChars) - 1) = MaskChars})

\* C17: for a non-empty source sequence in which "<mask>" does not occur and
\* max_length >= 1, random_sequence returns (it does not raise) the first
\* min(len(seq), max_length) residues of the sequence in their order with
\* exactly one of them replaced by "<mask>": one mask, and
\* min(len(seq), max_length) - 1 residues.
C17_RandomSequence ==
    (/\ fpc \in {"returned", "raised"}
     /\ uniref_seq # <<>>
     /\ CountMask(uniref_seq) = 0
     /\ rs_max_length >= 1)
    => LET m == Min(Len(uniref_seq), rs_max_length)
       IN  /\ fpc = "returned"
           /\ \E k \in 1..m :
                rs_seq = SubSeq(uniref_seq, 1, k - 1) \o MaskChars
                            \o SubSeq(uniref_seq, k + 1, m)
           /\ CountMask(rs_seq) = 1
           /\ Len(rs_seq) = (m - 1) + Len(MaskChars)

C17_Witness ==
    /\ fpc = "returned"
    /\ uniref_seq = <<"A", "G", "A">>
    /\ rs_max_length = 2
    /\ rs_seq = <<"A">> \o MaskChars

\* C16: the pair predict_fn builds for the compiled model has the shape of
\* the input the model was traced with: for every request sequence, short
\* or longer than the limit, input_ids and attention_mask have exactly 128
\* positions, as tracing_input has with max_length = 128.
C16_FixedInputShape ==
    /\ (hpc \in {"output_fn", "raised", "done"} /\ input_data.type = "str") =>
          prediction_input # NoInput
    /\ prediction_input # NoInput =>
          /\ Len(prediction_input) = Len(tracing_input)
          /\ \A c \in 1..Len(prediction_input) :
               /\ DOMAIN prediction_input[c] = 1..128
               /\ DOMAIN prediction_input[c] = DOMAIN tracing_input[c]

C16_Witness ==
    /\ hpc = "raised"
    /\ input_data.type = "str"
    /\ Len(input_data.val) > 128
    /\ prediction_input # NoInput
    /\ prediction_input[2][128] = 1

\* C18: input_fn, called with content type application/json, returns the
\* value stored under "inputs" of the parsed JSON object when the object has
\* that key, and the whole parsed object when it has not.
C18_InputFnReturns ==
    (/\ hpc \in {"predict_fn", "output_fn", "raised", "done"}
     /\ request \in Requests
     /\ request.content_type = JSON_CONTENT_TYPE)
    => LET parsed == request.body[2]
       IN  /\ hexc # "Exception"
           /\ "inputs" \in parsed.keys =>
                 input_data = [type |-> "str", val |-> parsed.val["inputs"], keys |-> {}]
           /\ "inputs" \notin parsed.keys => input_data = parsed

C18_Witness ==
    /\ hpc = "predict_fn"
    /\ request \in Requests
    /\ request.body[2].keys = {"inputs", "sequence"}
    /\ request.body[2].val["inputs"] = <<"A", MASK>>
    /\ request.body[2].val["sequence"] = <<"G">>
    /\ input_data.type = "str"
    /\ input_data.val = <<"A", MASK>>

====
